---- MODULE Spec2Model ----
(***************************************************************************)
(* The worker pool and dispatch loop of docs/jimeng.py (jimeng_expand and  *)
(* its caller process_img), in the configuration call_main builds: three   *)
(* windows, each with a TokenBucket(4, 4) and no browser instance yet.     *)
(* Jobs are requests served as asyncio tasks; a step of a job is the code  *)
(* between two awaits.                                                     *)
(***************************************************************************)
EXTENDS Integers, Sequences, FiniteSets, Bags

\* ------------------------------------------------------------- bounds
MaxInFlight == 2    \* requests in flight at once under Spec
MaxIndex == 4       \* value the round-robin cursor can reach under Spec
NumJobs == 5        \* requests in flight at once under SpecLoad and SpecFair
MaxLoadIndex == 8   \* value the round-robin cursor can reach under SpecLoad
MaxFairIndex == 14  \* value the round-robin cursor can reach under SpecFair
MaxRefill == 1      \* permits the refill adds in a run
StarveJobs == 6     \* requests in flight at once under SpecStarve
MaxStarveIndex == 16 \* value the round-robin cursor can reach under SpecStarve
RecentLen == 4      \* selections remembered in `recent`
ShrinkJobs == 6     \* requests in flight at once under SpecShrink
MaxShrinkIndex == 15 \* value the round-robin cursor can reach under SpecShrink

\* ------------------------------------------------------------- program constants
Capacity == 4
SleepSec == 5
TimeoutSec == 300
CreditMin == 15

None == "none"

\* the step did not reach total_credit = gift_credit + purchase_credit + vip_credit
NoCredit == -1

\* the values of total_credit the jobs read: none, just below and at the threshold
Credits == {0, CreditMin - 1, CreditMin}
InitialWindows == <<"jimeng028", "jimeng023", "jimeng022">>
Names == {InitialWindows[i] : i \in 1..Len(InitialWindows)}

VARIABLES
    windows,        \* the global list `windows` (names of the pooled windows)
    window_index,   \* the global round-robin cursor
    tokens,         \* tokens[w]: permits available in w's token bucket
    refilled,       \* refilled[w]: permits the refill has added to w's bucket
    sessions,       \* sessions[w]: browsers connected and stored in w['instance']
    alerts,         \* alerts[w]: utils.sendAlert calls naming w
    jobs,           \* the bag of the requests in flight, each a Job record
    response,       \* what process_img answered in the latest step, or None
    total_credit,   \* the total_credit the latest step computed, or NoCredit
    recent          \* history: the latest selections of the loop, each with the
                    \* window selected and whether its bucket granted the permit,
                    \* kept while no window has been removed

vars == <<windows, window_index, tokens, refilled, sessions, alerts, jobs, response,
          total_credit, recent>>

Min(a, b) == IF a < b THEN a ELSE b

RECURSIVE Sum(_, _)
Sum(f, S) == IF S = {} THEN 0
             ELSE LET x == CHOOSE y \in S : TRUE IN f[x] + Sum(f, S \ {x})

\* a request inside jimeng_expand: where its task is suspended, its local
\* `window`, its clock perf_counter() - start_at_lock (read in the loop only)
\* and, once the try block is left, how it was left
Job(p, w, e) == [pc |-> p, window |-> w, elapsed |-> e, outcome |-> None]

\* a request suspended in the finally block at `await page.close()`, its permit
\* released: jimeng_expand will end with r (an exception, or "returned" for
\* `return images_url`) when the task is resumed
Leaving(w, r) == [pc |-> "finally", window |-> w, elapsed |-> 0, outcome |-> r]

\* the jobs in flight, as a set of the distinct Job records
Running == BagToSet(jobs)

\* the bag after the task t moved on to u
Moved(t, u) == (jobs (-) SetToBag({t})) (+) SetToBag({u})

\* the bag after the task t ended
Ended(t) == jobs (-) SetToBag({t})

\* the job is between the get_token that granted its permit and the release()
\* of the finally block
Holding(t) == t.pc \in {"connect", "exec", "closing"}

\* the number of jobs of the bag b between the acquisition and the release of
\* a permit of w
HoldersIn(b, w) ==
    BagCardinality([t \in {u \in BagToSet(b) : u.window = w /\ Holding(u)}
                        |-> CopiesIn(t, b)])

Holders(w) == HoldersIn(jobs, w)

\* ------------------------------------------------------------- rates.TokenBucket
\* get_token(acquire=True): a permit is granted iff one is available.
TokenGranted(avail) == avail > 0

\* the bucket after a granted get_token
TokenTaken(avail) == avail - 1

\* a release that forgets the cap
TokenReleasedUncapped(avail) == avail + 1

\* release(): the permit goes back, capped at the capacity
TokenReleased(avail) == Min(avail + 1, Capacity)

\* the time-based refill: one permit toward the capacity
TokenRefilled(avail) == Min(avail + 1, Capacity)

\* ------------------------------------------------------------- process_img
\* the code of the response for each way jimeng_expand can end: e.code of a
\* BizException, 1000 for any other exception
Code(r) ==
    CASE r = "ok" -> 0
      [] r = "rate_limit" -> 1003
      [] r = "download_failed" -> 1004
      [] r = "parse_failed" -> 1004
      [] r = "size_too_low" -> 1005
      [] r = "no_image_url" -> 1005
      [] r = "page_timeout" -> 1006
      [] r = "credit" -> 1100
      [] r = "ban" -> 1101
      [] OTHER -> 1000

\* ------------------------------------------------------------- the pool
KeepNamed(x, name) == x = name

\* a removal whose filter keeps the named window instead of the others
RemoveAllButNamed(ws, name) ==
    SelectSeq(ws, LAMBDA x : KeepNamed(x, name))

KeepOther(x, name) == x # name

\* a removal that filters the list the service started with
RemoveFromInitial(ws, name) ==
    SelectSeq(InitialWindows, LAMBDA x : KeepOther(x, name))

\* windows = [w for w in windows if w['name'] != window_name]
RECURSIVE Remove(_, _)
Remove(ws, name) ==
    IF ws = <<>> THEN <<>>
    ELSE IF Head(ws) = name THEN Remove(Tail(ws), name)
         ELSE <<Head(ws)>> \o Remove(Tail(ws), name)

InPool(w) == \E i \in 1..Len(windows) : windows[i] = w

\* a selection that indexes with the cursor already advanced
SelectedAfterAdvance == windows[((window_index + 1) % Len(windows)) + 1]

\* windows[window_index % len(windows)]
Selected == windows[(window_index % Len(windows)) + 1]

\* a deadline compared in milliseconds against a clock in seconds
ExpiredMs(t) == t.elapsed > TimeoutSec * 1000

\* time.perf_counter() - start_at_lock > 60 * 5
Expired(t) == t.elapsed > TimeoutSec

\* how long an `await asyncio.sleep(5)` that starts with the clock at e can
\* take: 5 s, or longer when the event loop is busy with other tasks, here as
\* long as brings the clock to the deadline or just beyond it
SleepTimes(e) ==
    {d \in {SleepSec, TimeoutSec - e, TimeoutSec + 1 - e} : d >= SleepSec}

\* the clock after a sleep of d seconds
Elapse(e, d) == e + d

\* the history after the loop selected w and its bucket answered g
Last(q, n) == IF Len(q) <= n THEN q ELSE SubSeq(q, Len(q) - n + 1, Len(q))

Recorded(w, g) ==
    IF windows = InitialWindows
    THEN Last(Append(recent, [window |-> w, granted |-> g]), RecentLen)
    ELSE <<>>

\* window['instance'] is None
NoInstance(w) == sessions[w] = 0

Init ==
    /\ windows = InitialWindows
    /\ window_index = 0
    /\ tokens = [w \in Names |-> Capacity]
    /\ refilled = [w \in Names |-> 0]
    /\ sessions = [w \in Names |-> 0]
    /\ alerts = [w \in Names |-> 0]
    /\ jobs = EmptyBag
    /\ response = None
    /\ total_credit = NoCredit
    /\ recent = <<>>

\* a request arrives while fewer than n are in flight: process_img calls
\* jimeng_expand, which reads the clock
Start(n) ==
    /\ BagCardinality(jobs) < n
    /\ jobs' = jobs (+) SetToBag({Job("loop", None, 0)})
    /\ response' = None
    /\ total_credit' = NoCredit
    /\ UNCHANGED <<windows, window_index, tokens, refilled, sessions, alerts, recent>>

\* process_img returns the response for the way jimeng_expand ended; the
\* task t is over
Respond(t, r) ==
    /\ jobs' = Ended(t)
    /\ response' = r

\* jimeng_expand ends by raising r before a window is held
FailAcquire(t, r) ==
    /\ Respond(t, r)
    /\ total_credit' = NoCredit
    /\ UNCHANGED <<windows, window_index, tokens, refilled, sessions, alerts, recent>>

\* loop iteration: the deadline has passed
AcquireTimeout(t) ==
    /\ t.pc = "loop"
    /\ Expired(t)
    /\ FailAcquire(t, "token_bucket_timeout")

\* loop iteration: len(windows) is 0, the index expression raises
AcquireEmpty(t) ==
    /\ t.pc = "loop"
    /\ ~Expired(t)
    /\ Len(windows) = 0
    /\ FailAcquire(t, "ZeroDivisionError")

\* loop iteration: the selected bucket grants a permit; the instance is
\* looked at in the same step
AcquireGranted(t) ==
    /\ t.pc = "loop"
    /\ ~Expired(t)
    /\ Len(windows) > 0
    /\ LET w == Selected IN
        /\ TokenGranted(tokens[w])
        /\ tokens' = [tokens EXCEPT ![w] = TokenTaken(tokens[w])]
        /\ jobs' = Moved(t, Job(IF NoInstance(w) THEN "connect" ELSE "exec", w, 0))
    /\ window_index' = window_index + 1
    /\ response' = None
    /\ total_credit' = NoCredit
    /\ recent' = Recorded(Selected, TRUE)
    /\ UNCHANGED <<windows, refilled, sessions, alerts>>

\* a loop that moves the cursor on only when the permit is granted
AcquireDeniedNoAdvance(t) ==
    /\ t.pc = "loop"
    /\ ~Expired(t)
    /\ Len(windows) > 0
    /\ ~TokenGranted(tokens[Selected])
    /\ \E d \in SleepTimes(t.elapsed) :
          jobs' = Moved(t, Job("loop", None, Elapse(t.elapsed, d)))
    /\ response' = None
    /\ total_credit' = NoCredit
    /\ recent' = Recorded(Selected, FALSE)
    /\ UNCHANGED <<windows, window_index, tokens, refilled, sessions, alerts>>

\* loop iteration: no permit, sleep and loop again
AcquireDenied(t) ==
    /\ t.pc = "loop"
    /\ ~Expired(t)
    /\ Len(windows) > 0
    /\ ~TokenGranted(tokens[Selected])
    /\ window_index' = window_index + 1
    /\ \E d \in SleepTimes(t.elapsed) :
          jobs' = Moved(t, Job("loop", None, Elapse(t.elapsed, d)))
    /\ response' = None
    /\ total_credit' = NoCredit
    /\ recent' = Recorded(Selected, FALSE)
    /\ UNCHANGED <<windows, tokens, refilled, sessions, alerts>>

\* ------------------------------------------------------------- the session
\* window['instance'] = await ... connect_over_cdp(...) returns a browser
ConnectDone(t) ==
    /\ t.pc = "connect"
    /\ sessions' = [sessions EXCEPT ![t.window] = @ + 1]
    /\ jobs' = Moved(t, Job("exec", t.window, 0))
    /\ response' = None
    /\ total_credit' = NoCredit
    /\ UNCHANGED <<windows, window_index, tokens, refilled, alerts, recent>>

\* the connect raises: the exception leaves jimeng_expand before its try
ConnectFailed(t) ==
    /\ t.pc = "connect"
    /\ Respond(t, "connect_error")
    /\ total_credit' = NoCredit
    /\ UNCHANGED <<windows, window_index, tokens, refilled, sessions, alerts, recent>>

\* ------------------------------------------------------------- the job
\* a finally block that releases the bucket of the window under the cursor
ReleasedToSelected(t) ==
    [tokens EXCEPT ![IF Len(windows) > 0 THEN Selected ELSE t.window] =
                       TokenReleased(@)]

\* a finally block that releases the permit twice
ReleasedTwice(t) ==
    [tokens EXCEPT ![t.window] = TokenReleased(TokenReleased(tokens[t.window]))]

\* finally: window['token_bucket'].release()
Released(t) == [tokens EXCEPT ![t.window] = TokenReleased(tokens[t.window])]

\* the try block is left with r and the finally block runs: the permit goes
\* back and, the page being open, the task is suspended at `await page.close()`
Finish(t, r) ==
    /\ tokens' = Released(t)
    /\ jobs' = Moved(t, Leaving(t.window, r))
    /\ response' = None
    /\ UNCHANGED <<window_index, refilled, sessions>>

\* utils.sendAlert(..., message) with the window's name in the message
Alerted(t) == [alerts EXCEPT ![t.window] = @ + 1]

\* a threshold that also evicts a window with a credit of exactly 15
CreditEvictedAtThreshold(credit) == credit <= CreditMin

\* total_credit < 15
CreditEvicted(credit) == credit < CreditMin

\* the values of total_credit with which a job goes on after the check
Passing == {credit \in Credits : ~CreditEvicted(credit)}

\* exceptions that are not BizException, raised inside the try block
Faults == {"navigation_timeout", "credit_request_error", "input_missing",
           "unbound_message"}

\* BizExceptions raised without touching the pool
Failures == {"size_too_low", "rate_limit", "parse_failed", "no_image_url"}

\* images_url is returned; download_image then succeeds or raises 1004
Results == {"ok", "download_failed"}

\* the ways the try block is left with the page open
Outcomes ==
    Faults \cup Failures \cup {"returned", "credit", "ban", "page_timeout", "close_error"}

\* what process_img can answer when jimeng_expand ends with o
Answers(o) == IF o = "returned" THEN Results ELSE {o}

\* page.close() of the finally block returned, or raised and was logged:
\* jimeng_expand ends as the try block was left and process_img answers
Answer(t) ==
    /\ t.pc = "finally"
    /\ \E r \in Answers(t.outcome) : Respond(t, r)
    /\ total_credit' = NoCredit
    /\ UNCHANGED <<windows, window_index, tokens, refilled, sessions, alerts, recent>>

\* `await browser_context.new_page()` raises: `page` is still None, so the
\* finally block releases the permit without an await and process_img answers
PageFailed(t) ==
    /\ t.pc = "exec"
    /\ tokens' = Released(t)
    /\ Respond(t, "new_page_error")
    /\ total_credit' = NoCredit
    /\ UNCHANGED <<windows, window_index, refilled, sessions, alerts, recent>>

\* the values total_credit can have when the try block is left with r
Observed(r) ==
    CASE r = "credit_request_error" -> {NoCredit}
      [] r = "navigation_timeout" -> {NoCredit} \cup Passing
      [] OTHER -> Passing

\* a fault after which the alert is sent all the same
ExecFaultAlerting(t) ==
    /\ t.pc = "exec"
    /\ \E r \in Faults : Finish(t, r) /\ total_credit' \in Observed(r)
    /\ alerts' = Alerted(t)
    /\ UNCHANGED <<windows, recent>>

ExecFault(t) ==
    /\ t.pc = "exec"
    /\ \E r \in Faults : Finish(t, r) /\ total_credit' \in Observed(r)
    /\ UNCHANGED <<windows, alerts, recent>>

\* a size, rate-limit or result failure handled like a ban
ExecFailureEvicting(t) ==
    /\ t.pc = "exec"
    /\ \E r \in Failures : Finish(t, r)
    /\ total_credit' \in Passing
    /\ windows' = Remove(windows, t.window)
    /\ recent' = <<>>
    /\ alerts' = Alerted(t)

ExecFailure(t) ==
    /\ t.pc = "exec"
    /\ \E r \in Failures : Finish(t, r)
    /\ total_credit' \in Passing
    /\ UNCHANGED <<windows, alerts, recent>>

\* the try block returns images_url
ExecSuccess(t) ==
    /\ t.pc = "exec"
    /\ Finish(t, "returned")
    /\ total_credit' \in Passing
    /\ UNCHANGED <<windows, alerts, recent>>

\* the credit is too low: remove the window, alert, BizException(1100)
CreditLow(t) ==
    /\ t.pc = "exec"
    /\ \E credit \in Credits : CreditEvicted(credit) /\ total_credit' = credit
    /\ windows' = Remove(windows, t.window)
    /\ recent' = <<>>
    /\ alerts' = Alerted(t)
    /\ Finish(t, "credit")

\* PlaywrightTimeoutError while driving the page: remove the window, then
\* await page.close()
PageTimeout(t) ==
    /\ t.pc = "exec"
    /\ windows' = Remove(windows, t.window)
    /\ recent' = <<>>
    /\ jobs' = Moved(t, Job("closing", t.window, 0))
    /\ response' = None
    /\ total_credit' \in Passing
    /\ UNCHANGED <<window_index, tokens, refilled, sessions, alerts>>

\* page.close() of the except block returned: alert, BizException(1006)
PageClosed(t) ==
    /\ t.pc = "closing"
    /\ total_credit' = NoCredit
    /\ alerts' = Alerted(t)
    /\ Finish(t, "page_timeout")
    /\ UNCHANGED <<windows, recent>>

\* page.close() raised inside the except block
PageCloseFailed(t) ==
    /\ t.pc = "closing"
    /\ total_credit' = NoCredit
    /\ Finish(t, "close_error")
    /\ UNCHANGED <<windows, alerts, recent>>

\* a ban handled with the alert left out
BannedSilently(t) ==
    /\ t.pc = "exec"
    /\ windows' = Remove(windows, t.window)
    /\ recent' = <<>>
    /\ total_credit' \in Passing
    /\ Finish(t, "ban")
    /\ UNCHANGED alerts

\* body['ret'] == '1018': remove the window, alert, BizException(1101)
Banned(t) ==
    /\ t.pc = "exec"
    /\ windows' = Remove(windows, t.window)
    /\ recent' = <<>>
    /\ alerts' = Alerted(t)
    /\ total_credit' \in Passing
    /\ Finish(t, "ban")

\* ------------------------------------------------------------- the refill
Refill(w) ==
    /\ tokens[w] < Capacity
    /\ Sum(refilled, Names) < MaxRefill
    /\ tokens' = [tokens EXCEPT ![w] = TokenRefilled(tokens[w])]
    /\ refilled' = [refilled EXCEPT ![w] = @ + 1]
    /\ response' = None
    /\ total_credit' = NoCredit
    /\ UNCHANGED <<windows, window_index, sessions, alerts, jobs, recent>>

\* ------------------------------------------------------------- specifications
\* the service from its start, with at most MaxInFlight requests in flight.
\* Within MaxIndex selections no bucket of the pool runs dry (BucketsNotDry),
\* so no selection is denied and no job waits for the deadline; SpecLoad and
\* SpecFair hold these steps.
Next ==
    \/ Start(MaxInFlight)
    \/ \E t \in Running : AcquireEmpty(t)
    \/ \E t \in Running : window_index < MaxIndex /\ AcquireGranted(t)
    \/ \E t \in Running : ConnectDone(t)
    \/ \E t \in Running : ConnectFailed(t)
    \/ \E t \in Running : PageFailed(t)
    \/ \E t \in Running : ExecFault(t)
    \/ \E t \in Running : ExecFailure(t)
    \/ \E t \in Running : ExecSuccess(t)
    \/ \E t \in Running : CreditLow(t)
    \/ \E t \in Running : PageTimeout(t)
    \/ \E t \in Running : PageClosed(t)
    \/ \E t \in Running : PageCloseFailed(t)
    \/ \E t \in Running : Banned(t)
    \/ \E t \in Running : Answer(t)
    \/ \E w \in Names : Refill(w)

Spec == Init /\ [][Next]_vars

\* the service under load: the first two requests have found the credit of
\* jimeng028 and of jimeng022 too low (Spec reaches this state, LoadNotReached),
\* and up to NumJobs requests are in flight on the window that is left. Their
\* try blocks are left with the images or with the credit error; the other
\* ways out, which release the permit by the same finally block, are steps
\* of Spec.
InitLoad ==
    /\ windows = <<"jimeng023">>
    /\ window_index = 2
    /\ tokens = [w \in Names |-> Capacity]
    /\ refilled = [w \in Names |-> 0]
    /\ sessions = [w \in Names |-> IF w = "jimeng023" THEN 0 ELSE 1]
    /\ alerts = [w \in Names |-> IF w = "jimeng023" THEN 0 ELSE 1]
    /\ jobs = EmptyBag
    /\ response = "credit"
    /\ total_credit = NoCredit
    /\ recent = <<>>

NextLoad ==
    \/ Start(NumJobs)
    \/ \E t \in Running : AcquireTimeout(t)
    \/ \E t \in Running : AcquireEmpty(t)
    \/ \E t \in Running : window_index < MaxLoadIndex /\ AcquireGranted(t)
    \/ \E t \in Running : window_index < MaxLoadIndex /\ AcquireDenied(t)
    \/ \E t \in Running : ConnectDone(t)
    \/ \E t \in Running : ConnectFailed(t)
    \/ \E t \in Running : ExecSuccess(t)
    \/ \E t \in Running : CreditLow(t)
    \/ \E t \in Running : Answer(t)
    \/ \E w \in Names : Refill(w)

SpecLoad == InitLoad /\ [][NextLoad]_vars

\* the service from its start with up to NumJobs requests in flight: every
\* request that executes leaves with its images, so that no window is removed;
\* a waiting request whose deadline has passed ends with the timeout
NextFair ==
    \/ Start(NumJobs)
    \/ \E t \in Running : AcquireTimeout(t)
    \/ \E t \in Running : window_index < MaxFairIndex /\ AcquireGranted(t)
    \/ \E t \in Running : window_index < MaxFairIndex /\ AcquireDenied(t)
    \/ \E t \in Running : ConnectDone(t)
    \/ \E t \in Running : ExecSuccess(t)
    \/ \E t \in Running : Answer(t)

SpecFair == Init /\ [][NextFair]_vars

\* the service with jimeng028 saturated and no window removed: of the ten
\* requests served so far, those of the selections 0, 3, 6 and 9 are still
\* executing on jimeng028 (SpecFair reaches this state, StarveNotReached), and
\* up to StarveJobs requests are in flight; every request that executes leaves
\* with its images
InitStarve ==
    /\ windows = InitialWindows
    /\ window_index = 10
    /\ tokens = [w \in Names |-> IF w = "jimeng028" THEN 0 ELSE Capacity]
    /\ refilled = [w \in Names |-> 0]
    /\ sessions = [w \in Names |-> 1]
    /\ alerts = [w \in Names |-> 0]
    /\ jobs = [t \in {Job("exec", "jimeng028", 0)} |-> Capacity]
    /\ response = None
    /\ total_credit = NoCredit
    /\ recent = <<[window |-> "jimeng028", granted |-> TRUE],
                  [window |-> "jimeng023", granted |-> TRUE],
                  [window |-> "jimeng022", granted |-> TRUE],
                  [window |-> "jimeng028", granted |-> TRUE]>>

NextStarve ==
    \/ Start(StarveJobs)
    \/ \E t \in Running : AcquireTimeout(t)
    \/ \E t \in Running : window_index < MaxStarveIndex /\ AcquireGranted(t)
    \/ \E t \in Running : window_index < MaxStarveIndex /\ AcquireDenied(t)
    \/ \E t \in Running : ExecSuccess(t)
    \/ \E t \in Running : Answer(t)

SpecStarve == InitStarve /\ [][NextStarve]_vars

\* the service with a request waiting while the pool shrinks: no window has
\* been removed, the requests of the selections 0, 3, 6 and 9 are still
\* executing on jimeng028, and the request of selection 12 has just been
\* denied there and sleeps (SpecFair reaches this state, ShrinkNotReached).
\* Up to ShrinkJobs requests are in flight; a request that executes leaves
\* with its images or finds the credit of its window too low
InitShrink ==
    /\ windows = InitialWindows
    /\ window_index = 13
    /\ tokens = [w \in Names |-> IF w = "jimeng028" THEN 0 ELSE Capacity]
    /\ refilled = [w \in Names |-> 0]
    /\ sessions = [w \in Names |-> 1]
    /\ alerts = [w \in Names |-> 0]
    /\ jobs = [t \in {Job("exec", "jimeng028", 0)} |-> Capacity]
                 (+) SetToBag({Job("loop", None, SleepSec)})
    /\ response = None
    /\ total_credit = NoCredit
    /\ recent = <<[window |-> "jimeng028", granted |-> TRUE],
                  [window |-> "jimeng023", granted |-> TRUE],
                  [window |-> "jimeng022", granted |-> TRUE],
                  [window |-> "jimeng028", granted |-> FALSE]>>

NextShrink ==
    \/ Start(ShrinkJobs)
    \/ \E t \in Running : AcquireTimeout(t)
    \/ \E t \in Running : AcquireEmpty(t)
    \/ \E t \in Running : window_index < MaxShrinkIndex /\ AcquireGranted(t)
    \/ \E t \in Running : window_index < MaxShrinkIndex /\ AcquireDenied(t)
    \/ \E t \in Running : ExecSuccess(t)
    \/ \E t \in Running : CreditLow(t)
    \/ \E t \in Running : Answer(t)

SpecShrink == InitShrink /\ [][NextShrink]_vars

\* SpecFair reaches the state SpecShrink starts in: ShrinkNotReached is violated
ShrinkNotReached == ~InitShrink

\* SpecFair reaches the state SpecStarve starts in: StarveNotReached is violated
StarveNotReached == ~InitStarve

\* Spec reaches the state SpecLoad starts in: LoadNotReached is violated
LoadNotReached == ~InitLoad

\* under Spec every selection finds a permit
BucketsNotDry == \A w \in Names : InPool(w) => TokenGranted(tokens[w])

\* ------------------------------------------------------------- the claims
\* a job in the state t took the step
Left(t) == CopiesIn(t, jobs') < CopiesIn(t, jobs)

\* a job came to the state u by the step
Joined(u) == CopiesIn(u, jobs') > CopiesIn(u, jobs)

\* by the step a job left the try block with r and runs its finally block
Ending(r) == \E u \in BagToSet(jobs') : u.pc = "finally" /\ u.outcome = r /\ Joined(u)

\* the step resumes a job that left the try block with r: process_img answers
Resumed(r) == \E t \in Running : t.pc = "finally" /\ t.outcome = r /\ Left(t)

\* C1: whenever a job stops holding a permit of a window, on whatever path,
\* the step releases the permit to that window's bucket.
ReleasedOnEveryExit ==
    [][\A w \in Names :
          HoldersIn(jobs', w) < HoldersIn(jobs, w)
              => tokens'[w] = Min(tokens[w] + 1, Capacity)]_vars

\* C2: at most Capacity jobs hold a permit of a window, and at most the sum
\* of the capacities pool-wide.
HoldersWithinCapacity ==
    /\ \A w \in Names : Holders(w) <= Capacity
    /\ Sum([w \in Names |-> Holders(w)], Names) <= Capacity * Len(InitialWindows)

\* the holders of a window exceed its capacity by no more than the permits
\* the refill has added to its bucket
HoldersWithinRefilledCapacity ==
    /\ \A w \in Names : Holders(w) <= Capacity + refilled[w]
    /\ Sum([w \in Names |-> Holders(w)], Names)
           <= Capacity * Len(InitialWindows) + Sum(refilled, Names)

\* C3: every bucket keeps 0 <= available <= capacity.
TokensInRange == \A w \in Names : 0 <= tokens[w] /\ tokens[w] <= Capacity

\* C3 witness: a bucket that the refill has filled to its capacity while a
\* job holds a permit of it, so that the release meets the cap
BucketFullWhileHeld ==
    \E w \in Names : tokens[w] = Capacity /\ refilled[w] > 0 /\ Holders(w) > 0

\* C4: once a window is out of the pool no job starts to hold it, and the jobs
\* in flight on it still release their permit when they stop holding it.
EvictedNeverReturned ==
    [][\A w \in Names :
          ~InPool(w) =>
              /\ HoldersIn(jobs', w) <= HoldersIn(jobs, w)
              /\ HoldersIn(jobs', w) < HoldersIn(jobs, w)
                     => tokens'[w] = Min(tokens[w] + 1, Capacity)]_vars

\* C5: a window's browser session is connected at most once.
SessionConnectedOnce == \A w \in Names : sessions[w] <= 1

\* C6: a job whose selection finds the pool empty is answered with an outcome
\* of its own, neither the timeout nor the generic fault 1000.
PoolExhaustedAnswered ==
    [][(Len(windows) = 0 /\ \E t \in Running : t.pc = "loop" /\ Left(t))
          => /\ response' # "token_bucket_timeout"
             /\ Code(response') # 1000]_vars

\* C7: a waiting job whose clock is beyond the deadline ends with the timeout
\* and touches neither the cursor nor a bucket; a waiting job that is denied
\* has its clock moved on by the sleep, and only jobs within the deadline move
\* the cursor.
DeadlineEndsAcquire ==
    [][/\ \A t \in Running :
            (t.pc = "loop" /\ Left(t)) =>
                IF t.elapsed > TimeoutSec
                THEN /\ response' = "token_bucket_timeout"
                     /\ BagCardinality(jobs') < BagCardinality(jobs)
                     /\ window_index' = window_index
                     /\ tokens' = tokens
                ELSE \/ BagCardinality(jobs') < BagCardinality(jobs)
                     \/ \E u \in BagToSet(jobs') : u.pc # "loop" /\ Joined(u)
                     \/ \E u \in BagToSet(jobs') : /\ u.pc = "loop" /\ Joined(u)
                                                    /\ u.elapsed >= t.elapsed + SleepSec
       /\ window_index' # window_index =>
            \E t \in Running : t.pc = "loop" /\ t.elapsed <= TimeoutSec /\ Left(t)]_vars

\* C7 witness: a job has been answered with the timeout
TimedOut == response = "token_bucket_timeout"

\* the windows of the latest n entries of a history
Windows(q, n) == {q[i].window : i \in (Len(q) - n + 1)..Len(q)}

IsGranted(e) == e.granted

\* C8, as claimed, for M = pool size: with no window removed, any three
\* consecutive successful acquisitions return three different windows.
GrantsRoundRobin ==
    LET g == SelectSeq(recent, IsGranted)
    IN  Len(g) >= Len(InitialWindows) => Windows(g, Len(InitialWindows)) = Names

\* C8, amended, for M = pool size: with no window removed, any three
\* consecutive selections of the loop, granted or denied, select three
\* different windows.
SelectionsRoundRobin ==
    Len(recent) >= Len(InitialWindows) => Windows(recent, Len(InitialWindows)) = Names

\* C8 witness: a denied selection among the latest ones
DeniedAmongRecent ==
    /\ Len(recent) >= Len(InitialWindows)
    /\ \E i \in 1..Len(recent) : ~recent[i].granted

\* C9: when no job is in flight, one alert has been sent for each window that
\* is out of the pool and none for a window in the pool.
AlertOncePerRemoval ==
    jobs = EmptyBag => \A w \in Names : alerts[w] = IF InPool(w) THEN 0 ELSE 1

\* the outcomes the spec calls transient
Transient == {"rate_limit", "navigation_timeout", "page_timeout"}

\* C10: a job that ends with a rate limit, a navigation timeout or a
\* page-interaction timeout sends no alert and none of its steps changes the
\* pool, the step that meets the page-interaction timeout included.
TransientKeepsPool ==
    [][/\ ((\E r \in Transient : Ending(r)) \/ response' \in Transient)
            => windows' = windows /\ alerts' = alerts
       /\ (\E u \in BagToSet(jobs') : u.pc = "closing" /\ Joined(u))
            => windows' = windows]_vars

\* the outcomes after which the spec has the job tried again
Retryable == {"rate_limit", "navigation_timeout", "page_timeout", "credit", "ban"}

\* C11: a job that ends with a retryable failure or with an eviction while
\* windows are left in the pool is back in the acquire loop after the step.
RetriedAfterFailure ==
    [][(response' \in Retryable /\ Len(windows') > 0)
          => \E u \in BagToSet(jobs') : u.pc = "loop" /\ Joined(u)]_vars

\* the outcomes of an input that cannot be served
InputFatal == {"input_missing", "size_too_low", "no_image_url"}

\* C12: the step in which a job leaves the try block with an input-fatal
\* outcome removes no window and sends no alert; the job is then answered
\* with that error and is over (no job joins the loop), again with the pool
\* and the alerts unchanged.
InputFatalKeepsPool ==
    [][/\ (\E r \in InputFatal : Ending(r))
            => windows' = windows /\ alerts' = alerts
       /\ \A r \in InputFatal : Resumed(r) => response' = r
       /\ response' \in InputFatal
            => /\ Code(response') # 0
               /\ BagCardinality(jobs') = BagCardinality(jobs) - 1
               /\ \A u \in BagToSet(jobs') : ~Joined(u)
               /\ windows' = windows
               /\ alerts' = alerts]_vars

\* C12 witness: an input-fatal answer while windows have been removed and
\* another job is in flight
InputFatalAnswered ==
    response \in InputFatal /\ jobs # EmptyBag /\ Len(windows) < Len(InitialWindows)

\* C13: a step that reads a total credit below 15 removes the job's window,
\* and no other, and the job leaves with the credit error, which is answered
\* as 1100; a step that reads 15 or more does not leave with the credit error
\* and removes a window only for a ban or a page timeout; and 1100 is
\* answered to these jobs only.
CreditRule ==
    [][/\ total_credit' # NoCredit =>
            IF total_credit' < 15
            THEN \E t \in Running :
                    /\ t.pc = "exec" /\ Left(t)
                    /\ \A i \in 1..Len(windows') : windows'[i] # t.window
                    /\ \A w \in Names \ {t.window} :
                          InPool(w) => \E i \in 1..Len(windows') : windows'[i] = w
                    /\ Joined(Leaving(t.window, "credit"))
            ELSE /\ ~Ending("credit")
                 /\ windows' # windows
                       => \/ Ending("ban")
                          \/ \E u \in BagToSet(jobs') : u.pc = "closing" /\ Joined(u)
       /\ Ending("credit") => (total_credit' # NoCredit /\ total_credit' < 15)
       /\ Resumed("credit") => Code(response') = 1100
       /\ Code(response') = 1100 => Resumed("credit")]_vars

\* C13 witness: a job that read a total credit of exactly 15 went on and left
\* the try block with its images
CreditAtThresholdServed ==
    /\ total_credit = 15
    /\ \E t \in Running : t.pc = "finally" /\ t.outcome = "returned"

\* C14: the step in which a job leaves on the ban signal puts its window out
\* of the pool and sends one alert naming it; the job is then answered with
\* 1101, which is answered to these jobs only; and a step that removes a
\* window after the credit check passed, other than the page timeout, leaves
\* on the ban signal.
BanRule ==
    [][/\ Ending("ban")
            => \E t \in Running :
                  /\ t.pc = "exec" /\ Left(t)
                  /\ \A i \in 1..Len(windows') : windows'[i] # t.window
                  /\ alerts' = [alerts EXCEPT ![t.window] = @ + 1]
                  /\ Joined(Leaving(t.window, "ban"))
       /\ Resumed("ban") => Code(response') = 1101
       /\ Code(response') = 1101 => Resumed("ban")
       /\ (/\ windows' # windows
           /\ total_credit' >= 15
           /\ ~\E u \in BagToSet(jobs') : u.pc = "closing" /\ Joined(u))
            => Ending("ban")]_vars

\* C14 witness: a job was answered with the ban and the alert was sent
BanAnswered == response = "ban" /\ \E w \in Names : ~InPool(w) /\ alerts[w] > 0

\* C15: with no window removed and every job succeeding, no waiting job ends
\* with the timeout: each is granted a window.
NoWaiterTimesOut == response # "token_bucket_timeout"

\* the ways jimeng_expand ends without holding a permit
AcquireFailures == {"token_bucket_timeout", "ZeroDivisionError"}

\* 1 when the step is taken by a job that held a permit of w before it
LeftHolding(w) ==
    IF \E t \in Running : t.window = w /\ Holding(t) /\ Left(t) THEN 1 ELSE 0

\* 1 when the job that took the step holds a permit of w after it
JoinedHolding(w) ==
    IF \E u \in BagToSet(jobs') : u.window = w /\ Holding(u) /\ Joined(u) THEN 1 ELSE 0

\* C16: in every step and for every window, the permits the step adds to the
\* bucket, the refill's apart, are at most the holders the step takes away:
\* no release without its acquire and none twice; and a job whose acquisition
\* fails changes no bucket.
ReleaseMatched ==
    [][/\ \A w \in Names :
            tokens'[w] > tokens[w] =>
                tokens'[w] - tokens[w]
                    <= (refilled'[w] - refilled[w]) + LeftHolding(w) - JoinedHolding(w)
       /\ response' \in AcquireFailures => tokens' = tokens]_vars

\* C16 witness: an acquisition failed while other jobs hold permits and a
\* permit has been released before
AcquireFailedWhileHeld ==
    /\ response \in AcquireFailures
    /\ \E w \in Names : Holders(w) > 0 /\ tokens[w] > 0 /\ refilled[w] = 0

\* C17 (under SpecShrink, where selections are granted and denied while
\* windows are removed): the cursor never decreases; every iteration of the loop that is within
\* the deadline and finds the pool non-empty advances it by exactly one,
\* granted or denied, and nothing else moves it; the window selected is the
\* one at index (cursor mod pool size) of the current pool, an index inside it.
CursorSelects ==
    [][/\ window_index' >= window_index
       /\ \A t \in Running :
            (t.pc = "loop" /\ Left(t) /\ t.elapsed <= 300 /\ Len(windows) > 0)
                => window_index' = window_index + 1
       /\ window_index' # window_index =>
            /\ window_index' = window_index + 1
            /\ Len(windows) > 0
            /\ \E t \in Running : t.pc = "loop" /\ Left(t)
            /\ LET i == (window_index % Len(windows)) + 1
               IN  /\ i \in 1..Len(windows)
                   /\ \A u \in BagToSet(jobs') :
                         (Joined(u) /\ u.pc # "loop") => u.window = windows[i]
                   /\ windows = InitialWindows
                         => recent'[Len(recent')].window = windows[i]]_vars

\* C17 witness: the pool shrank between two attempts of the same job. The
\* request SpecShrink starts with was denied at selection 12 of the full pool;
\* its clock now shows two sleeps, so it was denied again, and the cursor is
\* at 15. No request that arrived later has been denied twice (a later denial
\* is one of the selections 13 and 14, and 13 is jimeng028 in no pool of two
\* windows), and in the full pool the selections 13 and 14 are jimeng023 and
\* jimeng022, held by at most one job each: the second denial was selection
\* 14 of a pool of two windows, index 14 mod 2. DeniedTwiceInShrunkPool, an
\* invariant of SpecShrink, says the same of the state right after the second
\* denial: the pool had shrunk by then.
DeniedTwiceInShrunkPool ==
    (window_index <= 15 /\ \E t \in Running : t.pc = "loop" /\ t.elapsed = 2 * SleepSec)
        => Len(windows) < Len(InitialWindows)

PoolShrankBetweenAttempts ==
    /\ Len(windows) = Len(InitialWindows) - 1
    /\ window_index = 15
    /\ \E t \in Running : t.pc = "loop" /\ t.elapsed = 2 * SleepSec

\* C18: in every step the windows of the new pool are windows of the previous
\* one, and the pool does not grow.
PoolOnlyShrinks ==
    [][/\ \A i \in 1..Len(windows') : InPool(windows'[i])
       /\ Len(windows') <= Len(windows)]_vars

\* C18 witness: two windows have been removed, one of them twice over, and a
\* job is executing on the window that is left
ServedAfterRemovals ==
    /\ Len(windows) = 1
    /\ \E w \in Names : alerts[w] > 1
    /\ \E t \in Running : t.pc = "exec" /\ InPool(t.window)

\* C19: the step in which a job leaves its try block (it runs the finally
\* block: it is suspended there, or it is answered at once) adds one permit,
\* up to the capacity, to the bucket of the job's window and changes no other
\* bucket, whether or not the window is still in the pool; a step of a
\* holding job that stays in the try block changes no bucket, and neither
\* does the step that answers a job suspended in the finally block.
ReleasedToOwner ==
    [][\A t \in Running :
          /\ (t.pc \in {"exec", "closing"} /\ Left(t)) =>
                IF response' # None \/ \E r \in Outcomes : Joined(Leaving(t.window, r))
                THEN tokens' = [tokens EXCEPT ![t.window] = Min(@ + 1, Capacity)]
                ELSE tokens' = tokens
          /\ (t.pc = "finally" /\ Left(t)) => tokens' = tokens]_vars

\* C19 witness: a job has been answered with success on a window that another
\* job removed while it was executing (no window is left), and every bucket
\* is full again
ReleasedAfterRemoval ==
    /\ response = "ok"
    /\ Len(windows) = 0
    /\ jobs = EmptyBag
    /\ \A w \in Names : tokens[w] = Capacity

\* the outcomes that come with no alert
Unalerted ==
    {"ok", "download_failed", "rate_limit", "parse_failed", "unbound_message"}
        \cup InputFatal

\* C20: a step sends at most one alert; the alert names the window of the job
\* that took the step, that window is out of the pool after the step, and the
\* job ends as evicted (1100, 1101 or 1006); a job that ends with success, a
\* rate limit, another non-OK response or an input-fatal error sends none.
AlertOnlyWithRemoval ==
    [][/\ \A w \in Names :
            alerts'[w] # alerts[w] =>
                /\ alerts' = [alerts EXCEPT ![w] = @ + 1]
                /\ \A i \in 1..Len(windows') : windows'[i] # w
                /\ \E t \in Running :
                      /\ t.window = w /\ t.pc \in {"exec", "closing"} /\ Left(t)
                      /\ \E r \in Outcomes :
                            /\ Joined(Leaving(w, r))
                            /\ Code(r) \in {1100, 1101, 1006}
       /\ (\E r \in Unalerted \cup {"returned"} : Ending(r)) => alerts' = alerts
       /\ response' \in Unalerted => alerts' = alerts]_vars

\* C20 witness: a non-OK response that is neither rate limit nor ban was
\* answered after an alert had been sent for a removed window
GenericFaultAfterAlert ==
    /\ response = "unbound_message"
    /\ \E w \in Names : ~InPool(w) /\ alerts[w] > 0

\* the list ws with the entries named name left out, the others in their order
Without(ws, name) == SelectSeq(ws, LAMBDA x : x # name)

\* C21: a step that evicts (it changes the pool, leaves the try block with
\* the credit or the ban error, or meets the page timeout) is taken by an executing job and leaves the pool as
\* it was with exactly that job's window left out, the other windows in their
\* order; the buckets and the sessions of the other windows and the cursor
\* are unchanged.
EvictsExactlyOne ==
    [][(\/ windows' # windows
        \/ Ending("credit")
        \/ Ending("ban")
        \/ \E u \in BagToSet(jobs') : u.pc = "closing" /\ Joined(u))
          => \E t \in Running :
                /\ t.pc = "exec" /\ Left(t)
                /\ windows' = Without(windows, t.window)
                /\ Len(windows') >= Len(windows) - 1
                /\ \A w \in Names \ {t.window} :
                      tokens'[w] = tokens[w] /\ sessions'[w] = sessions[w]
                /\ window_index' = window_index]_vars

\* C21 witness: a window has just been removed for its credit while another
\* window of the pool has a session and a permit taken, and the cursor has
\* moved on
EvictedBesideBusyWindow ==
    /\ total_credit # NoCredit /\ total_credit < CreditMin
    /\ \E t \in Running : t.pc = "finally" /\ t.outcome = "credit"
    /\ Len(windows) = Len(InitialWindows) - 1
    /\ window_index > 1
    /\ \E w \in Names : InPool(w) /\ tokens[w] < Capacity /\ sessions[w] > 0
====
